---- MODULE Spec2Model ----
(***************************************************************************)
(* Model of the "Nancy" movie recommendation engine of the GeMovies        *)
(* backend: the offline build of the similarity artifacts                  *)
(* (regenerate_models), their loading (load_models, NancyConfig.ready,     *)
(* the module-level loads of views.py), the query parser                   *)
(* (enhanced_parse_query) and the two recommendation entry points          *)
(* (generate_recommendations and RecommendMoviesView.post).                *)
(*                                                                         *)
(* Strings are sequences of one-character strings, so that lower-casing,   *)
(* hyphen removal and substring tests are computed and not assumed.        *)
(* Rows are numbered from 1 (pandas numbers them from 0).                  *)
(***************************************************************************)
EXTENDS Integers, Sequences, FiniteSets, TLC

\* ------------------------------------------------------------------ bounds

\* Largest number of rows of the Movie table.
MaxMovies == 2

\* Largest number of entities (seed titles, genres, actors, directors
\* together) of a parsed query handed to a recommendation entry point.
MaxEntities == 2

\* Largest number of MovieQuery audit rows.
MaxAudit == 1

\* Largest number of entities the recognizer reports for one query.
MaxSpans == 1

\* Longest string normalize_string is applied to on its own.
MaxStringLen == 3

\* Most rows of the User table, and most user_deactivated signals sent.
MaxUsers == 1
MaxSent == 1

\* ------------------------------------------------------- program constants

\* sim_scores[1:11]: the neighbour slice keeps ten rows.
TopK == 10

\* genre_recs[:10] and tolist()[:10]: titles one genre, actor or director
\* contributes.
BranchCap == 10

\* list(recommended)[:10] in RecommendMoviesView.post.
ViewCap == 10

\* RecommendationRequestSerializer.limit: default and min_value.
DefaultLimit == 10
MinLimit == 1

\* ----------------------------------------------------------------- strings

Range(seq) == { seq[i] : i \in DOMAIN seq }

UpperChars ==
  <<"A","B","C","D","E","F","G","H","I","J","K","L","M",
    "N","O","P","Q","R","S","T","U","V","W","X","Y","Z">>

LowerChars ==
  <<"a","b","c","d","e","f","g","h","i","j","k","l","m",
    "n","o","p","q","r","s","t","u","v","w","x","y","z">>

Chars ==
  Range(UpperChars) \cup Range(LowerChars) \cup { " ", "-", ",", "&", ".", "!", "?" }

\* One character of str.lower().
LowerChar ==
  [c \in Chars |->
     IF \E i \in 1..26 : UpperChars[i] = c
     THEN LowerChars[CHOOSE i \in 1..26 : UpperChars[i] = c]
     ELSE c]

\* str.lower()
Lower(s) == [i \in 1..Len(s) |-> LowerChar[s[i]]]

IsNotHyphen(c) == c # "-"

\* A variant that removes the first hyphen only: s.replace('-', '', 1).lower()
NormalizeFirstHyphenOnly(s) ==
  LET hyphens == { i \in DOMAIN s : s[i] = "-" } IN
  IF hyphens = {} THEN [i \in 1..Len(s) |-> LowerChar[s[i]]]
  ELSE LET h == CHOOSE i \in hyphens : \A j \in hyphens : i <= j IN
       [i \in 1..(Len(s) - 1) |-> LowerChar[IF i < h THEN s[i] ELSE s[i + 1]]]

\* s.replace('-', '')
RemoveHyphens(s) == SelectSeq(s, IsNotHyphen)

\* normalize_string(s): s.replace('-', '').lower()
normalize_string(s) == Lower(RemoveHyphens(s))

\* needle in hay (Python substring test)
Contains(hay, needle) ==
  \E i \in 0..(Len(hay) - Len(needle)) :
     SubSeq(hay, i + 1, i + Len(needle)) = needle

\* Series.str.contains(name, case=False): case-insensitive containment.
ContainsCI(field, name) == Contains(Lower(field), Lower(name))

Min(a, b) == IF a < b THEN a ELSE b
Max(a, b) == IF a < b THEN b ELSE a

\* The enumerations list(s) of a set s can produce.
Orderings(S) ==
  { q \in [1..Cardinality(S) -> S] : \A x \in S : \E i \in DOMAIN q : q[i] = x }

\* seq[:n]
Take(seq, n) == SubSeq(seq, 1, Min(n, Len(seq)))

NoDuplicates(seq) ==
  \A i, j \in DOMAIN seq : seq[i] = seq[j] => i = j

\* --------------------------------------------------------------- movie table

T_XMenHyphen == <<"X","-","M","e","n">>
T_XMen == <<"X","M","e","n">>
T_Her == <<"H","e","r">>
T_Hero == <<"H","e","r","o">>
T_Nope == <<"N","o","p","e">>

G_action == <<"a","c","t","i","o","n">>
G_drama == <<"d","r","a","m","a">>

N_AlRoe == <<"A","l"," ","R","o","e">>
N_BoLee == <<"B","o"," ","L","e","e">>
N_CyOrr == <<"C","y"," ","O","r","r">>

\* Movie rows the table is filled from: a hyphenated title and a second title
\* with the same normalized form, two rows with the same description, a row
\* with an empty description, and a person who is both an actor and a
\* director.  A description is the set of terms the vectorizer keeps of it.
Catalogue ==
  { [title |-> T_XMenHyphen, description |-> {"a"},
     genres |-> <<"A","c","t","i","o","n">>,
     actors |-> N_AlRoe, directors |-> N_BoLee],
    [title |-> T_XMen, description |-> {},
     genres |-> <<"A","c","t","i","o","n",","," ","D","r","a","m","a">>,
     actors |-> <<"A","l"," ","R","o","e",","," ","C","y"," ","O","r","r">>,
     directors |-> N_BoLee],
    [title |-> T_Her, description |-> {"a"},
     genres |-> <<"D","r","a","m","a">>,
     actors |-> N_CyOrr, directors |-> N_AlRoe] }

Titles(t) == { t[i].title : i \in DOMAIN t }

\* ---------------------------------------------------------------- artifacts

\* The four pickles, in the order in which they are written and read.
ArtifactOrder == <<"cosine_sim", "df_movies", "indices", "tfidf">>

Artifacts == Range(ArtifactOrder)

\* An artifact is the table snapshot it was computed from: the matrix, the
\* frame and the title index are functions of it (CosineSim, IndexOf).
Missing == [present |-> FALSE, rows |-> <<>>]
Built(t) == [present |-> TRUE, rows |-> t]

VARIABLES
  movies,   \* the Movie table of the database, in row order
  disk,     \* nancy/ml_models: artifact name -> Missing or Built(snapshot)
  build,    \* the regenerate_models command: [pc, snap]
  MODELS,   \* recommendation.MODELS: key -> Missing (no key) or Built(snapshot)
  phase,    \* the serving process: "down", "imported", "ready"
  views,    \* the globals of views.py: [loaded, cosine_sim, df_movies, indices]
  resp,     \* the last request and its answer
  audit,    \* the number of rows of the MovieQuery table
  users,    \* the User table of the accounts app, in primary-key order
  sent,     \* the user_deactivated signals sent so far: [sender, user]
  latest    \* the Movies table of the info app, in row order

vars == <<movies, disk, build, MODELS, phase, views, resp, audit, users, sent, latest>>

\* The state of the accounts app, which the recommendation engine never touches.
accounts == <<users, sent>>

\* ------------------------------------------------------------ offline build

\* cosine_similarity of two description vectors, as a percentage: 100 for
\* equal non-empty term sets, 0 when no term is shared (an empty description
\* is the zero vector, also against itself).
CosineSim(d1, d2) ==
  IF d1 \cap d2 = {} THEN 0
  ELSE (100 * Cardinality(d1 \cap d2) * Cardinality(d1 \cap d2))
         \div (Cardinality(d1) * Cardinality(d2))

\* cosine_sim[r]: one row of the matrix of snapshot t.
SimRow(t, r) == [j \in 1..Len(t) |-> CosineSim(t[r].description, t[j].description)]

\* df_movies['normalized_title']
NormalizedTitle(t) == [i \in 1..Len(t) |-> normalize_string(Lower(t[i].title))]

\* Series.drop_duplicates(): keeps the first entry of every VALUE (the labels
\* play no part).
DropDuplicates(series) ==
  LET Keep(i) == \A j \in 1..(i - 1) : series[j].value # series[i].value
      F[i \in 0..Len(series)] ==
        IF i = 0 THEN <<>>
        ELSE IF Keep(i) THEN Append(F[i - 1], series[i]) ELSE F[i - 1]
  IN F[Len(series)]

\* indices = pd.Series(df_movies.index, index=df_movies['normalized_title'])
\*             .drop_duplicates()
IndexOf(t) ==
  DropDuplicates([i \in 1..Len(t) |-> [label |-> NormalizedTitle(t)[i], value |-> i]])

\* key in indices
InIndex(ix, key) == \E i \in DOMAIN ix : ix[i].label = key

\* indices[key]: the values under the label, one or several.
IndexRows(ix, key) ==
  LET F[i \in 0..Len(ix)] ==
        IF i = 0 THEN <<>>
        ELSE IF ix[i].label = key THEN Append(F[i - 1], ix[i].value) ELSE F[i - 1]
  IN F[Len(ix)]

\* TfidfVectorizer.fit_transform raises on an empty vocabulary, and the frame
\* of an empty table has no 'title' column.
CanBuild(t) == t # <<>> /\ \E i \in DOMAIN t : t[i].description # {}

\* --------------------------------------------------------- neighbour lookup

\* sorted(list(enumerate(row)), key=lambda x: x[1], reverse=True): the row
\* numbers by descending score; sorted() is stable, also with reverse=True,
\* so equal scores keep their row order.
SortedDesc(row) ==
  LET n == Len(row)
      Before(i, j) == row[i] > row[j] \/ (row[i] = row[j] /\ i < j)
      Pos(i) == 1 + Cardinality({ j \in 1..n : Before(j, i) })
  IN [p \in 1..n |-> CHOOSE i \in 1..n : Pos(i) = p]

\* sim_scores[1:11]: positions 2..11 of the sorted list.
NeighbourRows(cs, r) ==
  LET s == SortedDesc(SimRow(cs, r))
  IN SubSeq(s, 2, Min(TopK + 1, Len(s)))

NoNeighbours == [found |-> FALSE, error |-> FALSE, titles |-> <<>>]

\* A variant that answers an unknown key with the neighbours of the first row.
LookupFallsBackToFirstRow(cs, df, ix, key) ==
  LET rows == IF InIndex(ix, key) THEN IndexRows(ix, key) ELSE <<1>> IN
  IF Len(cs) = 0 THEN NoNeighbours
  ELSE IF Len(rows) > 1 \/ rows[1] > Len(cs)
  THEN [found |-> InIndex(ix, key), error |-> TRUE, titles |-> <<>>]
  ELSE LET nb == NeighbourRows(cs, rows[1]) IN
       IF \E p \in DOMAIN nb : nb[p] > Len(df)
       THEN [found |-> InIndex(ix, key), error |-> TRUE, titles |-> <<>>]
       ELSE [found |-> InIndex(ix, key), error |-> FALSE,
             titles |-> [p \in DOMAIN nb |-> df[nb[p]].title]]

\* The lookup both entry points share, from `if key in indices` on: cs, df and
\* ix are the loaded matrix, frame and title index.  Several rows under one
\* label make indices[key] a Series, cosine_sim[idx] a block of rows, and
\* sorting its rows raises ValueError; a row outside the matrix or the frame
\* raises IndexError.
NeighbourLookup(cs, df, ix, key) ==
  IF ~InIndex(ix, key) THEN NoNeighbours
  ELSE LET rows == IndexRows(ix, key) IN
       IF Len(rows) > 1 \/ rows[1] > Len(cs)
       THEN [found |-> TRUE, error |-> TRUE, titles |-> <<>>]
       ELSE LET nb == NeighbourRows(cs, rows[1]) IN
            IF \E p \in DOMAIN nb : nb[p] > Len(df)
            THEN [found |-> TRUE, error |-> TRUE, titles |-> <<>>]
            ELSE [found |-> TRUE, error |-> FALSE,
                  titles |-> [p \in DOMAIN nb |-> df[nb[p]].title]]

\* The key generate_recommendations looks a seed title up under.
EngineKey(title) == normalize_string(title)

\* The key views.recommend_movies looks a title up under: title.lower().
ViewKey(title) == Lower(title)

\* views.recommend_movies(title) on the globals V of views.py.
recommend_movies(V, title) ==
  NeighbourLookup(V.cosine_sim, V.df_movies, IndexOf(V.indices), ViewKey(title))

\* df_movies[df_movies[field].str.contains(name, case=False, na=False)]
\*   ['title'].tolist()
MatchRows(df, field, name) ==
  LET Hit(i) == ContainsCI(df[i][field], name)
      F[i \in 0..Len(df)] ==
        IF i = 0 THEN <<>>
        ELSE IF Hit(i) THEN Append(F[i - 1], df[i].title) ELSE F[i - 1]
  IN F[Len(df)]

\* fetch_movies_by_genre / _actor / _director of views.py: the first ten.
fetch_movies_by(df, field, name) == Take(MatchRows(df, field, name), BranchCap)

\* random.shuffle(recs); recs[:10]: any ten of the matches (all of them when
\* there are at most ten).
ShufflePicks(matches) ==
  { S \in SUBSET Range(matches) :
      Cardinality(S) = Min(BranchCap, Cardinality(Range(matches))) }

\* ------------------------------------------------------------ parsed queries

NoParsed == [genres |-> {}, specific_movies |-> {}, actors |-> {}, directors |-> {}]

SeedPool == { r.title : r \in Catalogue } \cup { T_Nope }
GenrePool == { G_action, G_drama }
ActorPool == { N_AlRoe }
DirectorPool == { N_BoLee }

EntityCount(p) ==
  Cardinality(p.genres) + Cardinality(p.specific_movies)
    + Cardinality(p.actors) + Cardinality(p.directors)

\* The parsed queries handed to the recommendation entry points.
ParsedInputs ==
  { p \in [genres : SUBSET GenrePool, specific_movies : SUBSET SeedPool,
           actors : SUBSET ActorPool, directors : SUBSET DirectorPool] :
      EntityCount(p) <= MaxEntities }

\* The (field, name) pairs of the genre, actor and director branches.
BranchEntities(p) ==
  { <<"genres", g>> : g \in p.genres }
    \cup { <<"actors", a>> : a \in p.actors }
    \cup { <<"directors", d>> : d \in p.directors }

\* ------------------------------------------------- generate_recommendations

\* The seed branch runs when the query names seeds and the three keys are in
\* MODELS: all(k in MODELS for k in ('cosine_sim', 'df_movies', 'indices')).
SeedBranchOn(M, p) ==
  /\ p.specific_movies # {}
  /\ M["cosine_sim"].present /\ M["df_movies"].present /\ M["indices"].present

\* The genre, actor and director branches run when 'df_movies' in MODELS.
BranchOn(M, p) == M["df_movies"].present

SeedLookup(M, title) ==
  NeighbourLookup(M["cosine_sim"].rows, M["df_movies"].rows,
                  IndexOf(M["indices"].rows), EngineKey(title))

\* An exception of the seed loop ends the call.
EngineRaises(M, p) ==
  SeedBranchOn(M, p) /\ \E m \in p.specific_movies : SeedLookup(M, m).error

SeedCandidates(M, p) ==
  IF SeedBranchOn(M, p)
  THEN UNION { Range(SeedLookup(M, m).titles) : m \in p.specific_movies }
  ELSE {}

\* The selections the shuffles of the three branches can make: one pick per
\* genre, actor and director of the query.
BranchSelections(M, p) ==
  IF ~BranchOn(M, p) THEN { [e \in {} |-> {}] }
  ELSE { sel \in [BranchEntities(p) -> SUBSET Titles(M["df_movies"].rows)] :
           \A e \in BranchEntities(p) :
              sel[e] \in ShufflePicks(MatchRows(M["df_movies"].rows, e[1], e[2])) }

\* The set `recommendations` at the return: the candidates of the four
\* branches, then recommendations.discard(movie) for every seed.
Pool(M, p, sel) ==
  (SeedCandidates(M, p) \cup UNION { sel[e] : e \in DOMAIN sel })
    \ p.specific_movies

\* ------------------------------------------------- RecommendMoviesView.post

\* A serializer CharField trims the value and refuses a blank one.
IsSpace(c) == c = " "

IsValidQuery(q) == \E i \in DOMAIN q : ~IsSpace(q[i])

\* An exception of recommend_movies ends the request (500).
ViewRaises(V, p) == \E m \in p.specific_movies : recommend_movies(V, m).error

\* The set `recommended` before the 404 test: the neighbours of every seed and
\* the first ten matches of every genre, actor and director.
Recommended(V, p) ==
  UNION { Range(recommend_movies(V, m).titles) : m \in p.specific_movies }
    \cup UNION { Range(fetch_movies_by(V.df_movies, e[1], e[2])) : e \in BranchEntities(p) }

\* ----------------------------------------------------------- nlp_utils.py

\* score >= 90 of the fuzzy title pass.
TitleThreshold == 90

\* get_closest_genre(token_text, threshold=80)
GenreThreshold == 80

\* len(token.text) < 3: shorter tokens name no genre.
MinTokenLen == 3

IsLetter(c) == c \in Range(UpperChars) \cup Range(LowerChars)

\* str.strip()
Strip(s) ==
  LET kept == { i \in DOMAIN s : s[i] # " " } IN
  IF kept = {} THEN <<>>
  ELSE SubSeq(s, CHOOSE i \in kept : \A j \in kept : i <= j,
                 CHOOSE i \in kept : \A j \in kept : j <= i)

\* str.rstrip('.!?')
RStripPunct(s) ==
  LET kept == { i \in DOMAIN s : s[i] \notin { ".", "!", "?" } } IN
  IF kept = {} THEN <<>>
  ELSE SubSeq(s, 1, CHOOSE i \in kept : \A j \in kept : j <= i)

\* query.strip().rstrip('.!?')
QueryClean(query) == RStripPunct(Strip(query))

\* sep.join(parts)
Join(parts, sep) ==
  LET F[i \in 0..Len(parts)] ==
        IF i = 0 THEN <<>>
        ELSE IF i = 1 THEN parts[1]
        ELSE F[i - 1] \o sep \o parts[i]
  IN F[Len(parts)]

RECURSIVE Ascending(_)
\* The numbers of S in increasing order.
Ascending(S) ==
  IF S = {} THEN <<>>
  ELSE LET m == CHOOSE x \in S : \A y \in S : x <= y
       IN <<m>> \o Ascending(S \ {m})

\* The tokens of nlp(text), as character ranges: a run of letters is one
\* token, every other character but the space is a token of its own (the
\* tokenizer splits a hyphen between letters off as an infix).
Tokens(text) ==
  LET starts == { i \in DOMAIN text :
                    /\ text[i] # " "
                    /\ i = 1 \/ ~IsLetter(text[i]) \/ ~IsLetter(text[i - 1]) }
      st == Ascending(starts)
      End(i) == IF ~IsLetter(text[i]) THEN i
                ELSE CHOOSE j \in i..Len(text) :
                       /\ \A k \in i..j : IsLetter(text[k])
                       /\ j = Len(text) \/ ~IsLetter(text[j + 1])
  IN [k \in DOMAIN st |-> [from |-> st[k], to |-> End(st[k])]]

\* words = [token.text for token in doc]
Words(text) ==
  LET toks == Tokens(text) IN
  [k \in DOMAIN toks |-> SubSeq(text, toks[k].from, toks[k].to)]

\* phrase_normalized = normalize_string(' '.join(words))
PhraseNormalized(query) == normalize_string(Join(Words(QueryClean(query)), <<" ">>))

\* \band\b at position i of s
IsAndAt(s, i) ==
  /\ i + 2 <= Len(s)
  /\ SubSeq(s, i, i + 2) = <<"a","n","d">>
  /\ i = 1 \/ ~IsLetter(s[i - 1])
  /\ i + 2 = Len(s) \/ ~IsLetter(s[i + 3])

RECURSIVE SplitFrom(_, _, _, _)
\* re.split(r',|\band\b|\&', s) from position i on: cur is the piece being
\* read, acc the pieces read.
SplitFrom(s, i, cur, acc) ==
  IF i > Len(s) THEN Append(acc, cur)
  ELSE IF s[i] \in { ",", "&" } THEN SplitFrom(s, i + 1, <<>>, Append(acc, cur))
  ELSE IF IsAndAt(s, i) THEN SplitFrom(s, i + 3, <<>>, Append(acc, cur))
  ELSE SplitFrom(s, i + 1, Append(cur, s[i]), acc)

IsNotEmpty(s) == s # <<>>

\* [name.strip() for name in re.split(split_pattern, ', '.join(column))
\*  if name.strip()]
Names(df, field) ==
  LET joined == Join([i \in DOMAIN df |-> df[i][field]], <<",", " ">>)
      pieces == SplitFrom(joined, 1, <<>>, <<>>)
  IN SelectSeq([k \in DOMAIN pieces |-> Strip(pieces[k])], IsNotEmpty)

\* set(normalize_string(name) for name in names)
NamesNormalized(names) == { normalize_string(names[k]) : k \in DOMAIN names }

\* next((name for name in names if normalize_string(name) == key), None)
FirstName(names, key) ==
  names[CHOOSE k \in DOMAIN names :
          /\ normalize_string(names[k]) = key
          /\ \A j \in 1..(k - 1) : normalize_string(names[j]) # key]

\* movie_titles_normalized
TitlesNormalized(df) == { NormalizedTitle(df)[i] : i \in DOMAIN df }

\* df_movies[df_movies['title'].str.lower().apply(normalize_string) == key]
\*   .iloc[0]['title']
FirstTitleNormalized(df, key) ==
  df[CHOOSE k \in DOMAIN df :
       /\ NormalizedTitle(df)[k] = key
       /\ \A j \in 1..(k - 1) : NormalizedTitle(df)[j] # key].title

\* The rows of df_movies[df_movies['title'].str.lower() == ent.text.lower()]
RowsLowerEqual(df, text) == { k \in DOMAIN df : Lower(df[k].title) = Lower(text) }

\* utils.full_process: every character that is no letter or digit becomes a
\* space, then lower() and strip().
FullProcess(s) ==
  Strip(Lower([i \in 1..Len(s) |-> IF IsLetter(s[i]) THEN s[i] ELSE " "]))

RECURSIVE LcsRow(_, _, _, _)
\* The next row of the longest-common-subsequence table: cur[j + 1] is the
\* length for the prefix of a that ends in c and the first j characters of b.
LcsRow(prev, c, b, cur) ==
  IF Len(cur) = Len(b) + 1 THEN cur
  ELSE LET j == Len(cur) IN
       LcsRow(prev, c, b,
              Append(cur, IF c = b[j] THEN prev[j] + 1
                          ELSE Max(prev[j + 1], cur[j])))

RECURSIVE LcsFrom(_, _, _, _)
LcsFrom(a, b, i, prev) ==
  IF i > Len(a) THEN prev[Len(b) + 1]
  ELSE LcsFrom(a, b, i + 1, LcsRow(prev, a[i], b, <<0>>))

\* The number of matching characters of a and b.
Lcs(a, b) == LcsFrom(a, b, 1, [j \in 1..(Len(b) + 1) |-> 0])

\* fuzz.ratio: 2 * matches / (len(a) + len(b)), in percent, rounded.
Ratio(a, b) ==
  LET total == Len(a) + Len(b) IN
  IF total = 0 THEN 100 ELSE (400 * Lcs(a, b) + total) \div (2 * total)

\* fuzz.partial_ratio: the best ratio of the shorter string against a
\* stretch of the longer one; 100 exactly when the shorter is contained.
PartialRatio(a, b) ==
  LET short == IF Len(a) <= Len(b) THEN a ELSE b
      long == IF Len(a) <= Len(b) THEN b ELSE a
      ratios == { Ratio(short, SubSeq(long, i + 1, i + Len(short))) :
                    i \in 0..(Len(long) - Len(short)) }
  IN IF Contains(long, short) THEN 100
     ELSE CHOOSE m \in ratios : \A k \in ratios : k <= m

\* fuzz.WRatio, the scorer of process.extract and process.extractOne: the
\* plain ratio when the lengths are within a factor of 1.5, else the larger of
\* it and the partial ratio scaled by 0.9 (0.6 beyond a factor of 8).  The
\* token-sorted scores, scaled by a further 0.95, are left out: they equal the
\* plain ratio on one-word choices.
WRatio(s1, s2) ==
  LET p1 == FullProcess(s1)
      p2 == FullProcess(s2)
      mn == Min(Len(p1), Len(p2))
      mx == Max(Len(p1), Len(p2))
      scale == IF mx > 8 * mn THEN 60 ELSE 90
  IN IF mn = 0 THEN 0
     ELSE IF 2 * mx < 3 * mn THEN Ratio(p1, p2)
     ELSE Max(Ratio(p1, p2), (PartialRatio(p1, p2) * scale + 50) \div 100)

\* process.extract(query, choices, limit=1): the results it can return for a
\* set of choices, one per best-scoring choice (the order of a set decides
\* between equal scores), none for no choice.
FuzzyMatches(query, choices) ==
  IF choices = {} THEN { <<>> }
  ELSE LET scored == { [match |-> c, score |-> WRatio(query, c)] : c \in choices } IN
       { << m >> : m \in { d \in scored : \A e \in scored : e.score <= d.score } }

\* GENRES_LIST
GENRES_LIST ==
  << <<"a","c","t","i","o","n">>,
     <<"c","o","m","e","d","y">>,
     <<"d","r","a","m","a">>,
     <<"t","h","r","i","l","l","e","r">>,
     <<"h","o","r","r","o","r">>,
     <<"s","c","i","-","f","i">>,
     <<"r","o","m","a","n","t","i","c">>,
     <<"a","d","v","e","n","t","u","r","e">>,
     <<"f","a","n","t","a","s","y">>,
     <<"d","o","c","u","m","e","n","t","a","r","y">>,
     <<"a","n","i","m","a","t","i","o","n">>,
     <<"m","y","s","t","e","r","y">>,
     <<"c","r","i","m","e">>,
     <<"b","i","o","g","r","a","p","h","y">>,
     <<"f","a","m","i","l","y">>,
     <<"m","u","s","i","c","a","l">>,
     <<"w","a","r">>,
     <<"w","e","s","t","e","r","n">>,
     <<"h","i","s","t","o","r","y">>,
     <<"s","p","o","r","t">> >>

\* GENRE_VARIATIONS, as (key, genre) pairs
GENRE_VARIATIONS ==
  { <<<<"t","h","r","i","l","l","i","n","g">>,
      <<"t","h","r","i","l","l","e","r">>>>,
    <<<<"a","c","t","i","o","n","-","p","a","c","k","e","d">>,
      <<"a","c","t","i","o","n">>>>,
    <<<<"r","o","m","a","n","t","i","c">>,
      <<"r","o","m","a","n","t","i","c">>>>,
    <<<<"c","o","m","e","d","i","c">>,
      <<"c","o","m","e","d","y">>>>,
    <<<<"h","o","r","r","i","f","y","i","n","g">>,
      <<"h","o","r","r","o","r">>>>,
    <<<<"s","c","i"," ","f","i">>,
      <<"s","c","i","-","f","i">>>>,
    <<<<"s","c","i","e","n","c","e"," ","f","i","c","t","i","o","n">>,
      <<"s","c","i","-","f","i">>>>,
    <<<<"r","o","m","a","n","t","i","c"," ","c","o","m","e","d","y">>,
      <<"r","o","m","a","n","t","i","c">>>>,
    <<<<"a","d","v","e","n","t","u","r","o","u","s">>,
      <<"a","d","v","e","n","t","u","r","e">>>>,
    <<<<"f","a","n","t","a","s","t","i","c","a","l">>,
      <<"f","a","n","t","a","s","y">>>> }

\* get_closest_genre(token_text): process.extractOne over GENRES_LIST keeps
\* the first best-scoring genre; <<>> stands for None.
get_closest_genre(token_text) ==
  LET scored == { <<k, WRatio(token_text, GENRES_LIST[k])>> : k \in DOMAIN GENRES_LIST }
      best == CHOOSE b \in scored :
                \A o \in scored : o[2] < b[2] \/ (o[2] = b[2] /\ b[1] <= o[1])
  IN IF best[2] >= GenreThreshold THEN GENRES_LIST[best[1]] ELSE <<>>

\* token.lemma_.lower(): the lemmatizer takes the plural s off a noun.
Lemma(word) ==
  LET w == Lower(word) IN
  IF Len(w) > MinTokenLen /\ w[Len(w)] = "s" THEN SubSeq(w, 1, Len(w) - 1) ELSE w

\* The genre one token of the genre loop appends (<<>>: none).
GenreOfToken(word) ==
  IF Lemma(word) \in Range(GENRES_LIST) THEN Lemma(word)
  ELSE IF \E v \in GENRE_VARIATIONS : v[1] = Lower(word)
  THEN (CHOOSE v \in GENRE_VARIATIONS : v[1] = Lower(word))[2]
  ELSE get_closest_genre(Lower(word))

\* A variant of the genre loop's filter that lets short tokens through.
GenreCandidatesOfAnyLength(query) ==
  { w \in Range(Words(QueryClean(query))) : IsLetter(w[1]) }

\* The tokens of the query the genre loop can reach: no punctuation, three
\* characters or more.  Whether one is a stop word, an adjective or a noun
\* is the tagger's decision.
GenreCandidates(query) ==
  { w \in Range(Words(QueryClean(query))) : IsLetter(w[1]) /\ Len(w) >= MinTokenLen }

\* A variant of the secondary matching that scans the query whatever the
\* entity loop found.
SecondaryMatchingAlways(found, names, query_normalized) ==
  found \cup { FirstName(names, n) :
                 n \in { x \in NamesNormalized(names) : Contains(query_normalized, x) } }

\* if not actors: ... / if not directors: ...: the names whose normalized
\* form the normalized query contains, only when the entity loop found none.
SecondaryMatching(found, names, query_normalized) ==
  IF found # {} THEN found
  ELSE { FirstName(names, n) :
           n \in { x \in NamesNormalized(names) : Contains(query_normalized, x) } }

\* A variant that reports a name in one category only: a director that is
\* reported as an actor too is dropped from the directors.
ParsedDictAcrossCategories(genres, specific_movies, actors, directors) ==
  [genres |-> genres, specific_movies |-> specific_movies,
   actors |-> actors, directors |-> directors \ actors]

\* genres = list(set(genres)) ... parsed = {...}: each list loses its
\* repeated entries on its own.
ParsedDict(genres, specific_movies, actors, directors) ==
  [genres |-> genres, specific_movies |-> specific_movies,
   actors |-> actors, directors |-> directors]

\* The outcome of a call that raised.
ParseRaised == [status |-> "error", parsed |-> NoParsed, entity |-> NoParsed]

\* enhanced_parse_query(query, df_movies).  ents is doc.ents (the texts of
\* the recognized entities), tagged the tokens the genre loop does not skip,
\* fuzzy_matches the result of process.extract.  `entity` is the state of the
\* four lists after the entity loop, `parsed` the dictionary returned.
enhanced_parse_query(query, df_movies, ents, tagged, fuzzy_matches) ==
  LET query_normalized == normalize_string(query)
      movie_titles_normalized == TitlesNormalized(df_movies)
      director_names == Names(df_movies, "directors")
      actor_names == Names(df_movies, "actors")
      title_ents == { e \in ents : normalize_string(e) \in movie_titles_normalized }
      FirstRow(e) == CHOOSE k \in RowsLowerEqual(df_movies, e) :
                        \A j \in RowsLowerEqual(df_movies, e) : k <= j
      ent_movies == { df_movies[FirstRow(e)].title : e \in title_ents }
      ent_directors ==
        { FirstName(director_names, normalize_string(e)) :
            e \in { x \in ents : normalize_string(x) \in NamesNormalized(director_names) } }
      ent_actors ==
        { FirstName(actor_names, normalize_string(e)) :
            e \in { x \in ents : normalize_string(x) \in NamesNormalized(actor_names) } }
      actors == SecondaryMatching(ent_actors, actor_names, query_normalized)
      directors == SecondaryMatching(ent_directors, director_names, query_normalized)
      secondary ==
        IF ent_movies # {} THEN ent_movies
        ELSE { FirstTitleNormalized(df_movies, n) :
                 n \in { x \in movie_titles_normalized :
                           Contains(query_normalized, x) } }
      exact_matches ==
        { df_movies[k].title :
            k \in { r \in DOMAIN df_movies :
                      NormalizedTitle(df_movies)[r] = PhraseNormalized(query) } }
      fuzzy ==
        { FirstTitleNormalized(df_movies, fuzzy_matches[i].match) :
            i \in { k \in DOMAIN fuzzy_matches :
                      fuzzy_matches[k].score >= TitleThreshold } }
      genres == { GenreOfToken(w) : w \in tagged } \ { <<>> }
  IN IF \E e \in title_ents : RowsLowerEqual(df_movies, e) = {}
     THEN ParseRaised
     ELSE [status |-> "ok",
           parsed |-> ParsedDict(genres, secondary \cup exact_matches \cup fuzzy,
                                 actors, directors),
           entity |-> [genres |-> {}, specific_movies |-> ent_movies,
                       actors |-> ent_actors, directors |-> ent_directors]]

\* The entities the recognizer can report for a query: up to MaxSpans spans
\* of the document that do not overlap.  A span that matches no title and no
\* name passes the entity loop without effect, so only matching spans
\* are drawn.
RecognizerOutputs(query, df_movies) ==
  LET text == QueryClean(query)
      toks == Tokens(text)
      Text(p) == SubSeq(text, toks[p[1]].from, toks[p[2]].to)
      known == TitlesNormalized(df_movies)
                 \cup NamesNormalized(Names(df_movies, "directors"))
                 \cup NamesNormalized(Names(df_movies, "actors"))
      spans == { p \in (DOMAIN toks) \X (DOMAIN toks) :
                   p[1] <= p[2] /\ normalize_string(Text(p)) \in known }
  IN { { Text(p) : p \in S } :
         S \in { R \in SUBSET spans :
                   /\ Cardinality(R) <= MaxSpans
                   /\ \A p, q \in R : p = q \/ p[2] < q[1] \/ q[2] < p[1] } }

\* The sets of tokens the genre loop can process: any of the candidates that
\* name a genre (the others append nothing).
TaggerOutputs(query) ==
  SUBSET { w \in GenreCandidates(query) : GenreOfToken(w) # <<>> }

\* ------------------------------------------------------------------- state

NoViews == [loaded |-> FALSE, cosine_sim |-> <<>>, df_movies |-> <<>>, indices |-> <<>>]

NoResp ==
  [op |-> "none", query |-> <<>>, title |-> <<>>, parsed |-> NoParsed,
   limit |-> DefaultLimit, status |-> "none", result |-> <<>>,
   found |-> FALSE, parserRan |-> FALSE, engineRan |-> FALSE,
   errors |-> {}, created |-> <<>>,
   ents |-> {}, tagged |-> {}, entity |-> NoParsed, keys |-> {}]

\* The tables the database can hold: up to MaxMovies rows of the catalogue,
\* in any order, no title twice (Movie.title is unique).
Tables ==
  UNION { { t \in [1..n -> Catalogue] : \A i, j \in 1..n : t[i] = t[j] => i = j } :
          n \in 0..MaxMovies }

\* No request is being answered.
Idle == resp.op = "none"

Init ==
  /\ movies \in Tables
  /\ disk = [a \in Artifacts |-> Missing]
  /\ build = [pc |-> 0, snap |-> <<>>]
  /\ MODELS = [a \in Artifacts |-> Missing]
  /\ phase = "down"
  /\ views = NoViews
  /\ resp = NoResp
  /\ audit = 0
  /\ users = <<>>
  /\ sent = <<>>
  /\ latest = <<>>

\* regenerate_models reads the table and computes the four artifacts.
BuildStart ==
  /\ Idle
  /\ build.pc = 0
  /\ CanBuild(movies)
  /\ build' = [pc |-> 1, snap |-> movies]
  /\ UNCHANGED <<accounts, latest, movies, disk, MODELS, phase, views, audit, resp>>

\* regenerate_models writes the next pickle.
BuildWrite ==
  /\ Idle
  /\ build.pc \in 1..4
  /\ disk' = [disk EXCEPT ![ArtifactOrder[build.pc]] = Built(build.snap)]
  /\ build' = IF build.pc = 4 THEN [pc |-> 0, snap |-> <<>>]
              ELSE [build EXCEPT !.pc = build.pc + 1]
  /\ UNCHANGED <<accounts, latest, movies, MODELS, phase, views, audit, resp>>

\* The position of the first pickle that cannot be read (5: none).
FirstUnreadable(d) ==
  IF \A k \in 1..4 : d[ArtifactOrder[k]].present THEN 5
  ELSE CHOOSE k \in 1..4 :
         /\ ~d[ArtifactOrder[k]].present
         /\ \A j \in 1..(k - 1) : d[ArtifactOrder[j]].present

\* The try block of load_models and of NancyConfig.ready: the pickles are read
\* in order into MODELS until one raises; the exception is printed and the
\* keys already set stay.
LoadInto(M, d) ==
  [a \in Artifacts |->
     IF \E k \in 1..(FirstUnreadable(d) - 1) : ArtifactOrder[k] = a
     THEN d[a] ELSE M[a]]

\* The serving process starts.  NancyConfig.ready() imports recommendation.py,
\* which sets MODELS = {} and runs load_models(), and then reads the pickles
\* again in its own try block.
Ready ==
  /\ Idle
  /\ phase = "down"
  /\ MODELS' = LoadInto(LoadInto([a \in Artifacts |-> Missing], disk), disk)
  /\ phase' = "ready"
  /\ UNCHANGED <<accounts, latest, movies, disk, build, views, audit, resp>>

\* The serving process ends; the next one starts from nothing.
Restart ==
  /\ Idle
  /\ phase = "ready"
  /\ phase' = "down"
  /\ MODELS' = [a \in Artifacts |-> Missing]
  /\ UNCHANGED <<accounts, latest, movies, disk, build, views, audit, resp>>

\* The limits a request carries: the serializer's minimum and its default.
RequestLimits == { MinLimit, DefaultLimit }

\* seq[::-1]
Reverse(seq) == [i \in 1..Len(seq) |-> seq[Len(seq) + 1 - i]]

\* A variant of generate_recommendations that shuffles the loaded frame
\* itself instead of the list of matching titles.
GenerateShufflingFrame ==
  /\ Idle
  /\ phase = "ready"
  /\ \E p \in ParsedInputs, limit \in RequestLimits :
       resp' = [NoResp EXCEPT !.op = "generate", !.parsed = p, !.limit = limit,
                              !.engineRan = TRUE, !.status = "ok"]
  /\ MODELS' = [MODELS EXCEPT !["df_movies"].rows = Reverse(@)]
  /\ UNCHANGED <<accounts, latest, movies, disk, build, phase, views, audit>>

\* generate_recommendations(parsed_query), called for a request that asked for
\* `limit` titles: the function takes no limit.
GenerateRecommendations ==
  /\ Idle
  /\ phase = "ready"
  /\ \E p \in ParsedInputs, limit \in RequestLimits :
       IF EngineRaises(MODELS, p)
       THEN resp' = [NoResp EXCEPT !.op = "generate", !.parsed = p, !.limit = limit,
                                   !.engineRan = TRUE, !.status = "error"]
       ELSE \E sel \in BranchSelections(MODELS, p) :
            \E order \in Orderings(Pool(MODELS, p, sel)) :
               resp' = [NoResp EXCEPT !.op = "generate", !.parsed = p, !.limit = limit,
                                      !.engineRan = TRUE, !.status = "ok",
                                      !.result = order]
  /\ UNCHANGED <<accounts, latest, movies, disk, build, MODELS, phase, views, audit>>

\* views.recommend_movies(title)
RecommendMovies ==
  /\ Idle
  /\ views.loaded
  /\ \E title \in SeedPool :
       LET r == recommend_movies(views, title) IN
       resp' = [NoResp EXCEPT !.op = "recommend_movies", !.title = title,
                              !.found = r.found,
                              !.status = IF r.error THEN "error" ELSE "ok",
                              !.result = r.titles]
  /\ UNCHANGED <<accounts, latest, movies, disk, build, MODELS, phase, views, audit>>

\* The (field, name) pairs fetch_movies_by_genre, _actor and _director are
\* called with.
FetchInputs ==
  { <<"genres", g>> : g \in GenrePool }
    \cup { <<"actors", a>> : a \in ActorPool }
    \cup { <<"directors", d>> : d \in DirectorPool }

\* views.fetch_movies_by_genre / _actor / _director(name)
FetchMovies ==
  /\ Idle
  /\ views.loaded
  /\ \E e \in FetchInputs :
       resp' = [NoResp EXCEPT !.op = "fetch", !.title = e[2], !.status = "ok",
                              !.result = fetch_movies_by(views.df_movies, e[1], e[2])]
  /\ UNCHANGED <<accounts, latest, movies, disk, build, MODELS, phase, views, audit>>

\* views.py is imported: its four module-level loads have no try block, so
\* the import succeeds only when the four pickles can be read.
ImportViews ==
  /\ Idle
  /\ ~views.loaded
  /\ \A a \in Artifacts : disk[a].present
  /\ views' = [loaded |-> TRUE, cosine_sim |-> disk["cosine_sim"].rows,
               df_movies |-> disk["df_movies"].rows, indices |-> disk["indices"].rows]
  /\ UNCHANGED <<accounts, latest, movies, disk, build, MODELS, phase, audit, resp>>

Q_Empty == <<>>
Q_Blank == <<" ">>
Q_LikeHer == <<"m","o","v","i","e","s"," ","l","i","k","e"," ","H","e","r">>

\* The request bodies posted to the view.
PostQueries == { Q_Empty, Q_Blank, Q_LikeHer }

\* A variant that joins the titles with nothing between them.
JoinTitlesWithoutSeparator(titles) ==
  LET F[i \in 0..Len(titles)] == IF i = 0 THEN <<>> ELSE F[i - 1] \o titles[i]
  IN F[Len(titles)]

\* ', '.join(titles)
JoinTitles(titles) ==
  LET F[i \in 0..Len(titles)] ==
        IF i = 0 THEN <<>>
        ELSE IF i = 1 THEN titles[1]
        ELSE F[i - 1] \o <<",", " ">> \o titles[i]
  IN F[Len(titles)]

\* A variant of the view's answer that treats a blank query as a query
\* without recommendations.
PostRejectedAsNotFound(q) ==
  [NoResp EXCEPT !.op = "post", !.query = q, !.status = "404", !.parserRan = TRUE]

\* The answer of RecommendMoviesView.post when input_serializer.is_valid()
\* is false: the last line of the method.
PostRejected(q) ==
  [NoResp EXCEPT !.op = "post", !.query = q, !.status = "400",
                 !.errors = { "query" }]

\* RecommendMoviesView.post(request).  parse_query is drawn from ParsedInputs;
\* resp.created holds the MovieQuery rows the request created, resp.keys the
\* keys of the response body.
Post ==
  /\ Idle
  /\ views.loaded
  /\ \E q \in PostQueries :
       IF ~IsValidQuery(q)
       THEN /\ resp' = PostRejected(q)
            /\ audit' = audit
       ELSE \E p \in ParsedInputs :
            LET answered == [NoResp EXCEPT !.op = "post", !.query = q, !.parsed = p,
                                           !.parserRan = TRUE, !.engineRan = TRUE]
            IN
            IF ViewRaises(views, p)
            THEN /\ resp' = [answered EXCEPT !.status = "500"]
                 /\ audit' = audit
            ELSE IF Recommended(views, p) = {}
            THEN /\ resp' = [answered EXCEPT !.status = "404", !.keys = { "response" }]
                 /\ audit' = audit
            ELSE /\ audit < MaxAudit
                 /\ \E order \in Orderings(Recommended(views, p)) :
                      /\ resp' = [answered EXCEPT
                                    !.status = "200",
                                    !.keys = { "response", "recommended_movies" },
                                    !.result = Take(order, ViewCap),
                                    !.created =
                                      << [query |-> q,
                                          recommended_movies |->
                                            JoinTitles(Take(order, ViewCap))] >>]
                      /\ audit' = audit + 1
  /\ UNCHANGED <<accounts, latest, movies, disk, build, MODELS, phase, views>>

\* The answer of the last request is sent.
Deliver ==
  /\ ~Idle
  /\ resp' = NoResp
  /\ UNCHANGED <<accounts, latest, movies, disk, build, MODELS, phase, views, audit>>

\* The recommendation engine: build, load, generate_recommendations and the
\* neighbour lookup of views.py.
Next ==
  \/ BuildStart
  \/ BuildWrite
  \/ Ready
  \/ Restart
  \/ ImportViews
  \/ GenerateRecommendations
  \/ RecommendMovies
  \/ FetchMovies
  \/ Deliver

Spec == Init /\ [][Next]_vars

\* The view of views.py: build, import, recommend_movies, post.
ViewNext ==
  \/ BuildStart
  \/ BuildWrite
  \/ ImportViews
  \/ RecommendMovies
  \/ Post
  \/ Deliver

ViewSpec == Init /\ [][ViewNext]_vars

T_HerBang == <<"H","e","r","!">>

\* The movie rows the parser is run on: the catalogue, a title that contains
\* another one, and a title that differs from another one in punctuation.
ParseCatalogue ==
  Catalogue \cup
    { [title |-> T_Hero, description |-> {"a"},
       genres |-> <<"D","r","a","m","a">>,
       actors |-> N_BoLee, directors |-> N_CyOrr],
      [title |-> T_HerBang, description |-> {"a"},
       genres |-> <<"D","r","a","m","a">>,
       actors |-> N_BoLee, directors |-> N_CyOrr] }

ParseTables ==
  UNION { { t \in [1..n -> ParseCatalogue] : \A i, j \in 1..n : t[i] = t[j] => i = j } :
          n \in 0..MaxMovies }

Q_MoviesLike == <<"m","o","v","i","e","s"," ","l","i","k","e"," ">>
Q_Her == <<"H","e","r">>
Q_AlRoeDramas == <<"A","l"," ","R","o","e"," ","d","r","a","m","a","s">>
Q_ThrillingDramas == <<"t","h","r","i","l","l","i","n","g"," ","d","r","a","m","a","s">>
Q_CyOrrAndAlRoe == <<"C","y"," ","O","r","r"," ","a","n","d"," ","A","l"," ","R","o","e">>

\* The queries parsed: "movies like T" for the catalogue's titles and for a
\* title of no row, a bare title, a name with a genre, a genre variation
\* with a genre, and two names.
ParseQueries ==
  { Q_MoviesLike \o T : T \in { r.title : r \in ParseCatalogue } \cup { T_Nope } }
    \cup { Q_Her, Q_AlRoeDramas, Q_ThrillingDramas, Q_CyOrrAndAlRoe }

ParseInit ==
  /\ movies \in ParseTables
  /\ disk = [a \in Artifacts |-> Missing]
  /\ build = [pc |-> 0, snap |-> <<>>]
  /\ MODELS = [a \in Artifacts |-> Missing]
  /\ phase = "down"
  /\ views = NoViews
  /\ resp = NoResp
  /\ audit = 0
  /\ users = <<>>
  /\ sent = <<>>
  /\ latest = <<>>

\* A call of enhanced_parse_query(query, df_movies) on the movie table.
ParseQuery ==
  /\ Idle
  /\ \E q \in ParseQueries :
     \E in \in FuzzyMatches(PhraseNormalized(q), TitlesNormalized(movies))
                \X TaggerOutputs(q) \X RecognizerOutputs(q, movies) :
       resp' = LET fm == in[1]
                   tagged == in[2]
                   ents == in[3]
                   r == enhanced_parse_query(q, movies, ents, tagged, fm)
               IN [NoResp EXCEPT !.op = "parse", !.query = q, !.parserRan = TRUE,
                                 !.ents = ents, !.tagged = tagged,
                                 !.status = r.status, !.parsed = r.parsed,
                                 !.entity = r.entity]
  /\ UNCHANGED <<accounts, latest, movies, disk, build, MODELS, phase, views, audit>>

\* The parser alone.
ParseNext ==
  \/ ParseQuery
  \/ Deliver

ParseSpec == ParseInit /\ [][ParseNext]_vars

\* The strings normalize_string is applied to: up to MaxStringLen characters,
\* letters of both cases, hyphens and spaces.
NormChars == { "A", "a", "B", "b", "-", " " }

NormStrings == UNION { [1..n -> NormChars] : n \in 0..MaxStringLen }

\* The other case of a letter (the character itself when it has none).
SwapCase(c) ==
  IF \E i \in 1..26 : UpperChars[i] = c
  THEN LowerChars[CHOOSE i \in 1..26 : UpperChars[i] = c]
  ELSE IF \E i \in 1..26 : LowerChars[i] = c
  THEN UpperChars[CHOOSE i \in 1..26 : LowerChars[i] = c]
  ELSE c

\* The strings that differ from s in the case of one letter or in one hyphen.
CaseOrHyphenEdits(s) ==
  { [s EXCEPT ![i] = SwapCase(s[i])] : i \in DOMAIN s }
    \cup { SubSeq(s, 1, i) \o <<"-">> \o SubSeq(s, i + 1, Len(s)) : i \in 0..Len(s) }
    \cup { SubSeq(s, 1, i - 1) \o SubSeq(s, i + 1, Len(s)) :
             i \in { k \in DOMAIN s : s[k] = "-" } }

NormInit ==
  /\ movies = <<>>
  /\ disk = [a \in Artifacts |-> Missing]
  /\ build = [pc |-> 0, snap |-> <<>>]
  /\ MODELS = [a \in Artifacts |-> Missing]
  /\ phase = "down"
  /\ views = NoViews
  /\ resp = NoResp
  /\ audit = 0
  /\ users = <<>>
  /\ sent = <<>>
  /\ latest = <<>>

\* normalize_string applied to a string s, to its own result, and to a string
\* t that differs from s in case or hyphens only.
Normalize ==
  /\ Idle
  /\ \E s \in NormStrings : \E t \in CaseOrHyphenEdits(s) :
       resp' = [NoResp EXCEPT !.op = "normalize", !.query = s, !.title = t,
                              !.status = "ok",
                              !.result = << normalize_string(s),
                                            normalize_string(normalize_string(s)),
                                            normalize_string(t) >>]
  /\ UNCHANGED <<accounts, latest, movies, disk, build, MODELS, phase, views, audit>>

\* normalize_string alone.
NormNext ==
  \/ Normalize
  \/ Deliver

NormSpec == NormInit /\ [][NormNext]_vars

\* ------------------------------------------- load against a running rebuild

\* load_movies / fetch_tmdb_movies: Movie.objects.update_or_create stores a
\* row for a title the table does not hold yet.
AddMovie ==
  /\ Idle
  /\ Len(movies) < MaxMovies
  /\ \E m \in Catalogue :
       /\ \A i \in DOMAIN movies : movies[i].title # m.title
       /\ movies' = Append(movies, m)
  /\ UNCHANGED <<accounts, latest, disk, build, MODELS, phase, views, audit, resp>>

\* The positions of the serving process while it loads: the four reads of
\* load_models (run by the import in NancyConfig.ready), then the four reads of
\* NancyConfig.ready itself.
LoadPositions ==
  <<"load_1", "load_2", "load_3", "load_4", "ready_1", "ready_2", "ready_3", "ready_4">>

\* The position after position i when its read succeeded.
AfterRead(i) == IF i = 8 THEN "ready" ELSE LoadPositions[i + 1]

\* The position after position i when its read raised: the except clause ends
\* the try block the read is in.
AfterRaise(i) == IF i <= 4 THEN LoadPositions[5] ELSE "ready"

\* The serving process starts: recommendation.py is imported, MODELS = {}.
LoadStart ==
  /\ Idle
  /\ phase = "down"
  /\ MODELS' = [a \in Artifacts |-> Missing]
  /\ phase' = LoadPositions[1]
  /\ UNCHANGED <<accounts, latest, movies, disk, build, views, audit, resp>>

\* One "with open(...) as f: MODELS[key] = pickle.load(f)" of load_models or
\* of NancyConfig.ready.
LoadRead ==
  /\ Idle
  /\ \E i \in DOMAIN LoadPositions :
       /\ phase = LoadPositions[i]
       /\ LET a == ArtifactOrder[((i - 1) % 4) + 1]
          IN IF disk[a].present
             THEN /\ MODELS' = [MODELS EXCEPT ![a] = disk[a]]
                  /\ phase' = AfterRead(i)
             ELSE /\ MODELS' = MODELS
                  /\ phase' = AfterRaise(i)
  /\ UNCHANGED <<accounts, latest, movies, disk, build, views, audit, resp>>

\* The table grows, regenerate_models rewrites the pickles one by one and the
\* serving process loads them one by one, in any interleaving.
ReloadNext ==
  \/ AddMovie
  \/ BuildStart
  \/ BuildWrite
  \/ LoadStart
  \/ LoadRead
  \/ Restart

ReloadSpec == Init /\ [][ReloadNext]_vars

\* ------------------------------------------------------------ accounts app

\* The state of the recommendation engine, which the accounts app never touches.
engine == <<movies, disk, build, MODELS, phase, views, audit>>

\* UserRoleChoices; User.role is nullable, None is the NULL role.
ADMIN == "ADMIN"
CUSTOMER == "CUSTOMER"
COMPANY == "COMPANY"
OTHER_ROLE == "OTHER"
UserRoleChoices == { ADMIN, CUSTOMER, COMPANY, OTHER_ROLE }
None == "None"

\* A keyword argument the caller leaves out.
Absent == "absent"

\* The usernames and email addresses requests carry; both columns are unique.
Usernames == { "ann", "bob" }
Emails == { "a@x.io", "b@x.io" }

\* SQL's truth values: a comparison with NULL is unknown.
SqlBool(b) == IF b THEN "true" ELSE "false"
SqlEq(x, y) == IF x = None \/ y = None THEN "unknown" ELSE SqlBool(x = y)
SqlAnd(p, q) ==
  IF p = "false" \/ q = "false" THEN "false"
  ELSE IF p = "true" /\ q = "true" THEN "true" ELSE "unknown"
SqlOr(p, q) ==
  IF p = "true" \/ q = "true" THEN "true"
  ELSE IF p = "false" /\ q = "false" THEN "false" ELSE "unknown"

\* CheckConstraint(Q(is_superuser=True, role=ADMIN) | Q(is_superuser=False))
superuser_must_be_admin(u) ==
  SqlOr(SqlAnd(SqlBool(u.is_superuser), SqlEq(u.role, ADMIN)), SqlBool(~u.is_superuser))

\* CheckConstraint(Q(terms_and_condition=True))
terms_and_conditions_must_be_true(u) == SqlBool(u.terms_and_condition)

\* The database takes row u as row pk (0: a new row): username and email are
\* unique, and a CHECK constraint rejects a row only when it evaluates to false.
RowAccepted(tbl, pk, u) ==
  /\ \A i \in DOMAIN tbl : i # pk => (tbl[i].username # u.username /\ tbl[i].email # u.email)
  /\ superuser_must_be_admin(u) # "false"
  /\ terms_and_conditions_must_be_true(u) # "false"

\* A variant of the receiver that does not look at `created`: every save of a
\* customer makes sure of a profile.
create_customer_profile_on_every_save(created, role, profile) ==
  IF role = CUSTOMER THEN TRUE ELSE profile

\* create_customer_profile, the post_save receiver, run after every save of a
\* user: whether the user has a Profile row afterwards.  A row just created
\* with the role CUSTOMER gets one (get_or_create); the OneToOneField lets a
\* user have one row at most.
create_customer_profile(created, role, profile) ==
  IF created /\ role = CUSTOMER THEN TRUE ELSE profile

\* The row a manager call builds from its arguments (is_active defaults to True).
NewUser(username, email, role, is_superuser, terms) ==
  [username |-> username, email |-> email, role |-> role,
   is_superuser |-> is_superuser, is_active |-> TRUE,
   terms_and_condition |-> terms,
   profile |-> create_customer_profile(TRUE, role, FALSE)]

\* The answer of an accounts operation.
AccountsResp(op, status, pk, args) == [op |-> op, status |-> status, pk |-> pk, args |-> args]

\* A variant of create_user without the role check: every role goes to
\* UserManager.create_user.
CreateUserWithoutRoleCheck ==
  /\ Idle
  /\ \E username \in Usernames, email \in Emails, role \in UserRoleChoices \cup { None },
        is_superuser \in BOOLEAN, terms \in BOOLEAN :
       LET u == NewUser(username, email, role, is_superuser, terms)
           args == [role |-> role, is_superuser |-> is_superuser,
                    terms_and_condition |-> terms]
       IN /\ RowAccepted(users, 0, u) => Len(users) < MaxUsers
          /\ IF RowAccepted(users, 0, u)
             THEN /\ users' = Append(users, u)
                  /\ resp' = AccountsResp("create_user", "created", Len(users) + 1, args)
             ELSE /\ users' = users
                  /\ resp' = AccountsResp("create_user", "IntegrityError", 0, args)
  /\ UNCHANGED <<engine, latest, sent>>

\* CustomUserManager.create_user: a missing or ADMIN role raises ValueError
\* before anything is stored; otherwise UserManager.create_user defaults
\* is_superuser to False (an explicit value is kept) and saves the row.
CreateUser ==
  /\ Idle
  /\ \E username \in Usernames, email \in Emails, role \in UserRoleChoices \cup { None },
        is_superuser \in BOOLEAN, terms \in BOOLEAN :
       LET u == NewUser(username, email, role, is_superuser, terms)
           raises == role = None \/ role = ADMIN
           args == [role |-> role, is_superuser |-> is_superuser,
                    terms_and_condition |-> terms]
       IN /\ (~raises /\ RowAccepted(users, 0, u)) => Len(users) < MaxUsers
          /\ IF raises
             THEN /\ users' = users
                  /\ resp' = AccountsResp("create_user", "ValueError", 0, args)
             ELSE IF RowAccepted(users, 0, u)
             THEN /\ users' = Append(users, u)
                  /\ resp' = AccountsResp("create_user", "created", Len(users) + 1, args)
             ELSE /\ users' = users
                  /\ resp' = AccountsResp("create_user", "IntegrityError", 0, args)
  /\ UNCHANGED <<engine, latest, sent>>

\* CustomUserManager.create_superuser: role defaults to ADMIN and
\* terms_and_condition to True when the caller leaves them out (setdefault keeps
\* an explicit value, None included); UserManager.create_superuser raises
\* ValueError unless is_staff and is_superuser are True, then saves the row.
CreateSuperuser ==
  /\ Idle
  /\ \E username \in Usernames, email \in Emails,
        role \in UserRoleChoices \cup { None, Absent },
        is_staff \in BOOLEAN, is_superuser \in BOOLEAN, terms \in BOOLEAN :
       LET u == NewUser(username, email, IF role = Absent THEN ADMIN ELSE role,
                        is_superuser, terms)
           raises == ~is_staff \/ ~is_superuser
       IN /\ (~raises /\ RowAccepted(users, 0, u)) => Len(users) < MaxUsers
          /\ IF raises
             THEN /\ users' = users
                  /\ resp' = AccountsResp("create_superuser", "ValueError", 0, role)
             ELSE IF RowAccepted(users, 0, u)
             THEN /\ users' = Append(users, u)
                  /\ resp' = AccountsResp("create_superuser", "created", Len(users) + 1, role)
             ELSE /\ users' = users
                  /\ resp' = AccountsResp("create_superuser", "IntegrityError", 0, role)
  /\ UNCHANGED <<engine, latest, sent>>

\* The assignments to one field of a stored user that a save can follow.
FieldValues ==
  ({ "role" } \X (UserRoleChoices \cup { None }))
    \cup ({ "is_superuser", "is_active", "terms_and_condition" } \X BOOLEAN)

\* setattr(user, field, value)
SetAttr(u, field, value) ==
  CASE field = "role" -> [u EXCEPT !.role = value]
    [] field = "is_superuser" -> [u EXCEPT !.is_superuser = value]
    [] field = "is_active" -> [u EXCEPT !.is_active = value]
    [] field = "terms_and_condition" -> [u EXCEPT !.terms_and_condition = value]

\* user.save() of a stored user after one of its fields was assigned.
Save ==
  /\ Idle
  /\ \E pk \in DOMAIN users, fv \in FieldValues :
       LET u == SetAttr(users[pk], fv[1], fv[2])
           saved == [u EXCEPT !.profile = create_customer_profile(FALSE, u.role, @)]
       IN IF RowAccepted(users, pk, u)
          THEN /\ users' = [users EXCEPT ![pk] = saved]
               /\ resp' = AccountsResp("save", "saved", pk, fv[1])
          ELSE /\ users' = users
               /\ resp' = AccountsResp("save", "IntegrityError", pk, fv[1])
  /\ UNCHANGED <<engine, latest, sent>>

\* A variant of the shared body that saves the new email without sending
\* user_deactivated.
ChangeEmailWithoutSignal(op, pk, new_email, valid) ==
  IF ~valid
  THEN /\ users' = users
       /\ sent' = sent
       /\ resp' = AccountsResp(op, "400", pk, new_email)
  ELSE LET u == [users[pk] EXCEPT !.email = new_email, !.is_active = FALSE]
       IN /\ sent' = sent
          /\ IF RowAccepted(users, pk, u)
             THEN /\ users' = [users EXCEPT ![pk] = u]
                  /\ resp' = AccountsResp(op, "204", pk, new_email)
             ELSE /\ users' = users
                  /\ resp' = AccountsResp(op, "500", pk, new_email)

\* The body shared by set_username and reset_username_confirm: the serializer
\* validates (400 otherwise), the email is assigned, the user is deactivated,
\* user_deactivated is sent and then the user is saved.
ChangeEmail(op, pk, new_email, valid) ==
  IF ~valid
  THEN /\ users' = users
       /\ sent' = sent
       /\ resp' = AccountsResp(op, "400", pk, new_email)
  ELSE LET u == [users[pk] EXCEPT !.email = new_email, !.is_active = FALSE]
       IN /\ sent' = Append(sent, [sender |-> "UserViewSet", user |-> pk])
          /\ IF RowAccepted(users, pk, u)
             THEN /\ users' = [users EXCEPT ![pk] = u]
                  /\ resp' = AccountsResp(op, "204", pk, new_email)
             ELSE /\ users' = users
                  /\ resp' = AccountsResp(op, "500", pk, new_email)

\* UserViewSet.set_username (url set_email): the user is request.user, an
\* authenticated and hence active user.
SetUsername ==
  /\ Idle
  /\ Len(sent) < MaxSent
  /\ \E pk \in DOMAIN users, new_email \in Emails, valid \in BOOLEAN :
       /\ users[pk].is_active
       /\ ChangeEmail("set_username", pk, new_email, valid)
  /\ UNCHANGED <<engine, latest>>

\* UserViewSet.reset_username_confirm: the user is serializer.user, the one the
\* uid and token of the request name.
ResetUsernameConfirm ==
  /\ Idle
  /\ Len(sent) < MaxSent
  /\ \E pk \in DOMAIN users, new_email \in Emails, valid \in BOOLEAN :
       ChangeEmail("reset_username_confirm", pk, new_email, valid)
  /\ UNCHANGED <<engine, latest>>

\* request.user of a permission check: a stored user (by primary key) or the
\* anonymous user.
AnonymousUser == 0
is_authenticated(user) == user # AnonymousUser

\* getattr(user, 'role', None)
RoleOf(user) == IF user = AnonymousUser THEN None ELSE users[user].role

\* isinstance(getattr(user, 'profile', None), Profile)
HasProfile(user) == user # AnonymousUser /\ users[user].profile

is_admin_user(user) == RoleOf(user) = ADMIN
is_non_admin_user(user) == ~is_admin_user(user)
is_customer_user(user) == RoleOf(user) = CUSTOMER
is_company_user(user) == HasProfile(user) /\ RoleOf(user) = COMPANY

\* The role permission classes and the user_role_function of each.
RolePermissionClasses == { "IsCustomerUser", "IsCompanyUser", "IsNoneAdminUser" }
user_role_function(cls, user) ==
  CASE cls = "IsCustomerUser" -> is_customer_user(user)
    [] cls = "IsCompanyUser" -> is_company_user(user)
    [] cls = "IsNoneAdminUser" -> is_non_admin_user(user)

\* bool(has_perm) for "has_perm = lambda args: user_role_function(args[1])":
\* the lambda is not called, and a function object is true.
has_perm == TRUE

\* RoleBasePermissionMixin.has_permission: user.is_authenticated and has_perm
has_permission(cls, user) == is_authenticated(user) /\ has_perm

\* A view guarded by a role permission class checks a request.
HasPermission ==
  /\ Idle
  /\ \E user \in DOMAIN users \cup { AnonymousUser }, cls \in RolePermissionClasses :
       /\ user # AnonymousUser => users[user].is_active
       /\ resp' = AccountsResp("has_permission",
                               IF has_permission(cls, user) THEN "granted" ELSE "denied",
                               user, cls)
  /\ UNCHANGED <<engine, latest, accounts>>

\* The accounts app starts with an empty User table and no signal sent.
AccountsInit ==
  /\ movies = <<>>
  /\ disk = [a \in Artifacts |-> Missing]
  /\ build = [pc |-> 0, snap |-> <<>>]
  /\ MODELS = [a \in Artifacts |-> Missing]
  /\ phase = "down"
  /\ views = NoViews
  /\ resp = NoResp
  /\ audit = 0
  /\ users = <<>>
  /\ sent = <<>>
  /\ latest = <<>>

AccountsNext ==
  \/ CreateUser
  \/ CreateSuperuser
  \/ Save
  \/ SetUsername
  \/ ResetUsernameConfirm
  \/ HasPermission
  \/ Deliver

AccountsSpec == AccountsInit /\ [][AccountsNext]_vars

\* ---------------------------------------------------------------- profiles

\* Users stored when profile requests are made.
MaxMembers == 2

Testville == "Testville"

\* A stored user with the fields the profile endpoints read: is_staff, and
\* the date_of_birth and city of its Profile row (None without a row or
\* before the owner filled them in).
Member(pk, role, is_staff, is_active, date_of_birth) ==
  [NewUser("user" \o ToString(pk), "user" \o ToString(pk) \o "@x.io", role,
           role = ADMIN, TRUE) EXCEPT !.is_active = is_active]
    @@ [is_staff |-> is_staff, date_of_birth |-> date_of_birth, city |-> None]

\* The user tables the profile requests are made on: administrators and
\* customers, each customer with the profile its creation gave it.
MemberTables ==
  UNION { { t \in [1..n -> [role : { ADMIN, CUSTOMER }, is_staff : BOOLEAN,
                            is_active : BOOLEAN, date_of_birth : { None, "1990-01-01" }]] :
              \A pk \in 1..n : t[pk].role = ADMIN => t[pk].date_of_birth = None } :
          n \in 1..MaxMembers }

\* rest_framework.permissions.IsAdminUser.has_permission
IsAdminUser(user) == user # AnonymousUser /\ users[user].is_staff

\* (IsAdminUser | IsCustomerUser).has_permission
ProfilePermission(user) == IsAdminUser(user) \/ has_permission("IsCustomerUser", user)

\* is_owner(user, obj); a profile is named by the user it belongs to.
is_owner(user, obj) ==
  \/ "user" \in DOMAIN obj /\ obj.user = user
  \/ "profile" \in DOMAIN obj /\ is_customer_user(user) /\ obj.profile = user

\* (IsAdminUser | IsCustomerUser).has_object_permission: each side counts
\* only with its own has_permission; IsAdminUser has no object rule.
ProfileObjectPermission(user, obj) ==
  \/ IsAdminUser(user)
  \/ has_permission("IsCustomerUser", user) /\ is_owner(user, obj)

\* Profile.objects.active().with_age(): the profiles of active users that
\* have a date of birth.
InProfileQueryset(id) ==
  /\ id \in DOMAIN users
  /\ users[id].profile
  /\ users[id].is_active
  /\ users[id].date_of_birth # None

\* PATCH /profiles/{id}/ with {'city': 'Testville'} by a user: the view's
\* permissions, get_object on the queryset, the object permission, the update.
UpdateProfile ==
  /\ Idle
  /\ \E user \in DOMAIN users \cup { AnonymousUser }, id \in DOMAIN users :
       /\ user # AnonymousUser => users[user].is_active
       /\ LET status ==
                IF ~ProfilePermission(user)
                THEN (IF is_authenticated(user) THEN "403" ELSE "401")
                ELSE IF ~InProfileQueryset(id) THEN "404"
                ELSE IF ~ProfileObjectPermission(user, [user |-> id]) THEN "403"
                ELSE "200"
          IN /\ resp' = AccountsResp("update_profile", status, id, user)
             /\ users' = IF status = "200"
                         THEN [users EXCEPT ![id].city = Testville]
                         ELSE users
  /\ UNCHANGED <<engine, latest, sent>>

ProfilesInit ==
  /\ movies = <<>>
  /\ disk = [a \in Artifacts |-> Missing]
  /\ build = [pc |-> 0, snap |-> <<>>]
  /\ MODELS = [a \in Artifacts |-> Missing]
  /\ phase = "down"
  /\ views = NoViews
  /\ resp = NoResp
  /\ audit = 0
  /\ \E t \in MemberTables :
       users = [pk \in DOMAIN t |->
                  Member(pk, t[pk].role, t[pk].is_staff, t[pk].is_active,
                         t[pk].date_of_birth)]
  /\ sent = <<>>
  /\ latest = <<>>

ProfilesNext ==
  \/ UpdateProfile
  \/ Deliver

ProfilesSpec == ProfilesInit /\ [][ProfilesNext]_vars

\* -------------------------------------------------------------------- info

\* if Movies.objects.count() > 10 / all_movies[10:]
LatestLimit == 10

\* Rows of the Movies table the requests are followed up to.
MaxStored == 12

ReleaseDates == { "2024-01-01", "2025-01-01" }

\* release_date order: ISO dates compare as their years do.
Older(d, e) == d = "2024-01-01" /\ e = "2025-01-01"

\* The id of the next row.
NextId(tbl) == Len(tbl) + 1

\* QuerySet.delete() of a sliced queryset, order_by(...)[:excess] or
\* all_movies[10:]: Django refuses it with TypeError ("Cannot use 'limit' or
\* 'offset' with delete()"), whatever the rows.
SlicedDeleteRaises == TRUE

\* The trimming step both entry points end with: it is entered when more
\* than ten rows are stored, and then raises.
TrimRaises(tbl) == Len(tbl) > LatestLimit /\ SlicedDeleteRaises

\* MoviesListCreateView.create: super().create stores the row, then the
\* table is trimmed.  When the trim raises the request is answered 500; the
\* row stays unless the request runs in a transaction (ATOMIC_REQUESTS).
CreateMovie ==
  /\ Idle
  /\ Len(latest) < MaxStored
  /\ \E d \in ReleaseDates, atomic_requests \in BOOLEAN :
       LET created == Append(latest, [id |-> NextId(latest), release_date |-> d])
       IN /\ latest' = IF TrimRaises(created) /\ atomic_requests THEN latest ELSE created
          /\ resp' = AccountsResp("create_movie",
                                  IF TrimRaises(created) THEN "500" ELSE "201",
                                  NextId(latest), d)
  /\ UNCHANGED <<engine, accounts>>

\* A run of the fetch_latest_movies command whose page holds one movie:
\* update_or_create by tmdb_id (a stored row or a new one), then the trim.
\* The command runs outside a transaction, so what it stored stays.
FetchLatestMovies ==
  /\ Idle
  /\ \E id \in 1..NextId(latest), d \in ReleaseDates :
       /\ id = NextId(latest) => Len(latest) < MaxStored
       /\ LET stored == IF id \in DOMAIN latest
                        THEN [latest EXCEPT ![id].release_date = d]
                        ELSE Append(latest, [id |-> id, release_date |-> d])
          IN /\ latest' = stored
             /\ resp' = AccountsResp("fetch_latest_movies",
                                     IF TrimRaises(stored) THEN "TypeError" ELSE "done",
                                     id, d)
  /\ UNCHANGED <<engine, accounts>>

InfoInit ==
  /\ movies = <<>>
  /\ disk = [a \in Artifacts |-> Missing]
  /\ build = [pc |-> 0, snap |-> <<>>]
  /\ MODELS = [a \in Artifacts |-> Missing]
  /\ phase = "down"
  /\ views = NoViews
  /\ resp = NoResp
  /\ audit = 0
  /\ users = <<>>
  /\ sent = <<>>
  /\ latest = <<>>

InfoNext ==
  \/ CreateMovie
  \/ FetchLatestMovies
  \/ Deliver

InfoSpec == InfoInit /\ [][InfoNext]_vars

\* ------------------------------------------------------------------ claims

Answered == resp.op \in { "generate", "post" } /\ resp.status \in { "ok", "200" }

\* C1: the list a recommendation entry point returns (generate_recommendations,
\* RecommendMoviesView.post) contains no title of the parsed specific_movies.
C1_NoSeedTitleRecommended ==
  Answered => Range(resp.result) \cap resp.parsed.specific_movies = {}

\* C2: the recommendation result has at most `limit` titles (10 when the
\* request names none) and no title twice.
C2_AtMostLimitNoDuplicates ==
  Answered => Len(resp.result) <= resp.limit /\ NoDuplicates(resp.result)

\* What C3 asks of one answered lookup r of key `key`.
WithinNeighbourBounds(r, cs, df, ix, key) ==
  (r.found /\ ~r.error) =>
     /\ Len(r.titles) <= TopK
     /\ Len(r.titles) <= Len(cs) - 1
     /\ df[IndexRows(ix, key)[1]].title \notin Range(r.titles)

\* C3: the neighbour lookup of an indexed title T returns at most 10 titles, at
\* most N-1 titles, and never T's own row, in recommend_movies and in the seed
\* loop of generate_recommendations.
C3_NeighboursExcludeSelf ==
  /\ resp.op = "recommend_movies" =>
       WithinNeighbourBounds([found |-> resp.found, error |-> resp.status = "error",
                              titles |-> resp.result],
                             views.cosine_sim, views.df_movies,
                             IndexOf(views.indices), ViewKey(resp.title))
  /\ resp.op = "generate" /\ SeedBranchOn(MODELS, resp.parsed) =>
       \A m \in resp.parsed.specific_movies :
          WithinNeighbourBounds(SeedLookup(MODELS, m),
                                MODELS["cosine_sim"].rows, MODELS["df_movies"].rows,
                                IndexOf(MODELS["indices"].rows), EngineKey(m))

\* A load that failed for at least one artifact.
PartiallyLoaded(M) == \E a \in Artifacts : ~M[a].present

\* C4: when the load of one of the four artifacts failed, no request is
\* answered from the artifacts that did load: generate_recommendations
\* produces no candidate.
C4_NothingServedFromPartialLoad ==
  (resp.op = "generate" /\ PartiallyLoaded(MODELS)) => resp.result = <<>>

\* C5: after the offline build the title index holds one row per normalized
\* title, the first occurrence, and a lookup of the title yields that single
\* row and its neighbours.
C5_OneIndexRowPerTitle ==
  disk["indices"].present =>
    LET t == disk["indices"].rows
        ix == IndexOf(t)
        First(label) == CHOOSE k \in DOMAIN t :
                          /\ NormalizedTitle(t)[k] = label
                          /\ \A j \in 1..(k - 1) : NormalizedTitle(t)[j] # label
    IN /\ \A i, j \in DOMAIN ix : ix[i].label = ix[j].label => i = j
       /\ \A k \in DOMAIN t : InIndex(ix, NormalizedTitle(t)[k])
       /\ \A i \in DOMAIN ix : ix[i].value = First(ix[i].label)
       /\ \A i \in DOMAIN ix :
            /\ IndexRows(ix, ix[i].label) = << First(ix[i].label) >>
            /\ ~NeighbourLookup(t, t, ix, ix[i].label).error

\* C6: enhanced_parse_query returns its four lists and raises no error for
\* every non-empty query and every movie table.
C6_ParserNeverRaises ==
  resp.op = "parse" => resp.status = "ok"

\* C7: for every title T of the movie table, the query "movies like T" parses
\* to specific_movies = {T}.
C7_MoviesLikeYieldsExactlyTitle ==
  \A T \in Titles(movies) :
     (resp.op = "parse" /\ resp.status = "ok" /\ resp.query = Q_MoviesLike \o T) =>
        resp.parsed.specific_movies = { T }

\* C8: the key the offline build stores a title under equals the key each
\* query path computes for it (generate_recommendations, recommend_movies),
\* so a lookup of a stored title finds its own row.
C8_QueryKeyEqualsBuildKey ==
  disk["indices"].present =>
    LET t == disk["indices"].rows
        ix == IndexOf(t)
    IN \A k \in DOMAIN t :
         /\ EngineKey(t[k].title) = NormalizedTitle(t)[k]
         /\ ViewKey(t[k].title) = NormalizedTitle(t)[k]
         /\ InIndex(ix, EngineKey(t[k].title))
         /\ InIndex(ix, ViewKey(t[k].title))

\* The titles the genre, actor and director branches can add.
BranchTitles(df, p) ==
  UNION { Range(MatchRows(df, e[1], e[2])) : e \in BranchEntities(p) }

UnknownSeeds(M, p) ==
  { m \in p.specific_movies : ~InIndex(IndexOf(M["indices"].rows), EngineKey(m)) }

\* C9: a neighbour lookup of a title that is not in the title index returns an
\* empty sequence, raises no error and adds nothing to the candidate pool.
C9_UnknownTitleGivesNothing ==
  /\ (resp.op = "recommend_movies"
        /\ ~InIndex(IndexOf(views.indices), ViewKey(resp.title))) =>
       resp.status = "ok" /\ resp.result = <<>>
  /\ (resp.op = "generate" /\ SeedBranchOn(MODELS, resp.parsed)) =>
       LET known == resp.parsed.specific_movies \ UnknownSeeds(MODELS, resp.parsed) IN
       /\ resp.status = "error" => \E m \in known : SeedLookup(MODELS, m).error
       /\ Range(resp.result) \subseteq
            UNION { Range(SeedLookup(MODELS, m).titles) : m \in known }
              \cup BranchTitles(MODELS["df_movies"].rows, resp.parsed)

\* A request with a known and an unknown seed was answered from the neighbours
\* of the known one.
C9_Witness ==
  /\ resp.op = "generate" /\ resp.status = "ok"
  /\ SeedBranchOn(MODELS, resp.parsed)
  /\ UnknownSeeds(MODELS, resp.parsed) # {}
  /\ UnknownSeeds(MODELS, resp.parsed) # resp.parsed.specific_movies
  /\ resp.result # <<>>

\* C10: an empty or whitespace-only query is answered 400 naming `query`,
\* before the parser or the engine runs, and creates no MovieQuery row.
C10_BlankQueryRejected ==
  (resp.op = "post" /\ ~IsValidQuery(resp.query)) =>
     /\ resp.status = "400"
     /\ "query" \in resp.errors
     /\ ~resp.parserRan /\ ~resp.engineRan
     /\ resp.created = <<>>

\* A whitespace-only query was posted and answered.
C10_Witness ==
  resp.op = "post" /\ resp.query = Q_Blank /\ resp.status = "400"

\* No branch of generate_recommendations yields a candidate for p.
NoBranchYields(M, p) ==
  /\ SeedBranchOn(M, p) => \A m \in p.specific_movies : SeedLookup(M, m).titles = <<>>
  /\ BranchOn(M, p) =>
       \A e \in BranchEntities(p) : MatchRows(M["df_movies"].rows, e[1], e[2]) = <<>>

\* C11: when the four sets of the parsed query are empty, or no branch yields
\* a candidate, generate_recommendations returns an empty list and raises no
\* error.
C11_NoCandidateGivesEmptyList ==
  (resp.op = "generate"
     /\ (resp.parsed = NoParsed \/ NoBranchYields(MODELS, resp.parsed))) =>
       resp.status = "ok" /\ resp.result = <<>>

\* C12: for a valid query the view answers 404 exactly when the candidate
\* pool is empty and 200 otherwise, and a 200 response carries a non-empty
\* recommended_movies and a response text.
C12_NotFoundIffPoolEmpty ==
  (resp.op = "post" /\ IsValidQuery(resp.query)) =>
     /\ resp.status = "404" <=> Recommended(views, resp.parsed) = {}
     /\ resp.status = "200" <=> Recommended(views, resp.parsed) # {}
     /\ resp.status = "200" =>
          /\ resp.result # <<>>
          /\ { "response", "recommended_movies" } \subseteq resp.keys

\* What C13 asks of the titles a lookup of row `row` returned.
HighestOthersInOrder(titles, cs, df, row) ==
  LET score == SimRow(cs, row)
      RowOf(p) == CHOOSE k \in DOMAIN df : df[k].title = titles[p]
      returned == { RowOf(p) : p \in DOMAIN titles }
  IN /\ row \notin returned
     /\ Len(titles) = Min(TopK, Len(cs) - 1)
     /\ \A p, q \in DOMAIN titles :
          p < q => \/ score[RowOf(p)] > score[RowOf(q)]
                   \/ score[RowOf(p)] = score[RowOf(q)] /\ RowOf(p) < RowOf(q)
     /\ \A k \in DOMAIN df \ (returned \cup { row }) :
          \A j \in returned : score[k] <= score[j]

\* C13: the neighbours of an indexed title are the highest-scoring other rows,
\* in descending score order, equal scores in row order.
C13_NeighboursHighestFirst ==
  /\ (resp.op = "recommend_movies" /\ resp.found /\ resp.status = "ok") =>
       HighestOthersInOrder(resp.result, views.cosine_sim, views.df_movies,
                            IndexRows(IndexOf(views.indices), ViewKey(resp.title))[1])
  /\ (resp.op = "generate" /\ SeedBranchOn(MODELS, resp.parsed)) =>
       \A m \in resp.parsed.specific_movies :
          (SeedLookup(MODELS, m).found /\ ~SeedLookup(MODELS, m).error) =>
             HighestOthersInOrder(
               SeedLookup(MODELS, m).titles,
               MODELS["cosine_sim"].rows, MODELS["df_movies"].rows,
               IndexRows(IndexOf(MODELS["indices"].rows), EngineKey(m))[1])

\* C14: normalize_string(s) has no hyphen and no upper-case letter, applying
\* it again changes nothing, and a string that differs from s only in letter
\* case or hyphens normalizes to the same value.
C14_NormalizeIdempotent ==
  resp.op = "normalize" =>
     /\ resp.status = "ok"
     /\ \A i \in DOMAIN resp.result[1] :
          resp.result[1][i] # "-" /\ resp.result[1][i] \notin Range(UpperChars)
     /\ resp.result[2] = resp.result[1]
     /\ resp.result[3] = resp.result[1]

\* A string with two hyphens and an upper-case letter was normalized, next to
\* a string that differs from it.
C14_Witness ==
  /\ resp.op = "normalize"
  /\ resp.query = <<"-", "A", "-">>
  /\ resp.title = <<"-", "a", "-">>
  /\ resp.result[1] = <<"a">>

\* C15: no request-path operation (generate_recommendations with its
\* shuffles, recommend_movies, fetch_movies_by_*) changes the loaded similarity
\* matrix, movie table or title index.
C15_RequestsLeaveModelUnchanged ==
  [][(resp.op = "none" /\ resp'.op \in { "generate", "recommend_movies", "fetch" })
       => (MODELS' = MODELS /\ views' = views)]_vars

\* A request on a fully loaded model whose genre branch shuffled two matches.
C15_Witness ==
  /\ resp.op = "generate" /\ resp.status = "ok"
  /\ \A a \in Artifacts : MODELS[a].present
  /\ resp.parsed.genres # {}
  /\ Len(resp.result) >= 2


\* The three loaded components that index rows.
RowIndexed == { "cosine_sim", "df_movies", "indices" }

\* C16: once a load has ended, the loaded matrix, frame and title index come
\* from one build: those that are loaded agree on the table snapshot they
\* index, whatever rebuild ran while the files were read.
C16_LoadedComponentsAgree ==
  phase = "ready" =>
    \A a, b \in RowIndexed :
      (MODELS[a].present /\ MODELS[b].present) => MODELS[a].rows = MODELS[b].rows


\* A step that answers an email change with 204.
EmailChanged ==
  /\ resp.op = "none"
  /\ resp'.op \in { "set_username", "reset_username_confirm" }
  /\ resp'.status = "204"

\* C17: every successful email change through set_username or
\* reset_username_confirm sends user_deactivated exactly once, from UserViewSet
\* and for the user changed, and leaves that user stored with the new email and
\* inactive.
C17_EmailChangeDeactivatesOnce ==
  [][EmailChanged =>
       /\ sent' = Append(sent, [sender |-> "UserViewSet", user |-> resp'.pk])
       /\ users'[resp'.pk].email = resp'.args
       /\ ~users'[resp'.pk].is_active]_vars

C17_Witness ==
  /\ resp.op = "set_username"
  /\ resp.status = "204"
  /\ sent = << [sender |-> "UserViewSet", user |-> resp.pk] >>
  /\ users[resp.pk].email = resp.args
  /\ ~users[resp.pk].is_active

\* A step that answers a create_user call.
CreateUserAnswered == resp.op = "none" /\ resp'.op = "create_user"

\* create_user stored one more row, a non-superuser with the role asked for.
CreatedWithRole ==
  /\ resp'.status = "created"
  /\ Len(users') = Len(users) + 1
  /\ SubSeq(users', 1, Len(users)) = users
  /\ ~users'[Len(users')].is_superuser
  /\ users'[Len(users')].role = resp'.args.role

C19_SuperusersAreAdminsAndTermsAccepted ==
  \A pk \in DOMAIN users :
    /\ users[pk].is_superuser => users[pk].role = ADMIN
    /\ users[pk].terms_and_condition

\* C20: a role permission class grants view-level permission only to an
\* authenticated user for whom its role function holds.
C20_GrantedOnlyToRoleHolders ==
  (resp.op = "has_permission" /\ resp.status = "granted") =>
    /\ is_authenticated(resp.pk)
    /\ user_role_function(resp.args, resp.pk)


\* Row k is one of the TopK highest-scoring rows other than row `row`.
IsTopNeighbour(cs, row, k) ==
  LET score == SimRow(cs, row)
      ahead == { j \in DOMAIN cs \ { row, k } :
                   score[j] > score[k] \/ (score[j] = score[k] /\ j < k) }
  IN k # row /\ Cardinality(ahead) < TopK

\* Title t is a neighbour of a seed of p that the index knows.
JustifiedBySeed(M, p, t) ==
  \E m \in p.specific_movies :
    /\ SeedBranchOn(M, p)
    /\ SeedLookup(M, m).found
    /\ \E k \in DOMAIN M["df_movies"].rows :
         /\ M["df_movies"].rows[k].title = t
         /\ IsTopNeighbour(M["cosine_sim"].rows,
                           IndexRows(IndexOf(M["indices"].rows), EngineKey(m))[1], k)

\* Title t is the title of a row whose genres, actors or directors field
\* contains a genre, actor or director of p.
JustifiedByField(df, p, t) ==
  \E e \in BranchEntities(p) :
    \E k \in DOMAIN df : df[k].title = t /\ ContainsCI(df[k][e[1]], e[2])

\* C23: every title of a recommendation result is a top-10 neighbour of a
\* seed or matches a requested genre, actor or director, no result is larger
\* than ten titles per seed and per requested name, and a lookup by one name
\* returns at most ten titles, all matching it.
C23_EveryTitleJustified ==
  /\ (resp.op = "generate" /\ resp.status = "ok") =>
       /\ \A t \in Range(resp.result) :
            \/ JustifiedBySeed(MODELS, resp.parsed, t)
            \/ JustifiedByField(MODELS["df_movies"].rows, resp.parsed, t)
       /\ Len(resp.result) <=
            TopK * Cardinality(resp.parsed.specific_movies)
              + BranchCap * Cardinality(BranchEntities(resp.parsed))
  /\ resp.op = "fetch" =>
       /\ Len(resp.result) <= BranchCap
       /\ \A t \in Range(resp.result) :
            \E k \in DOMAIN views.df_movies, f \in { "genres", "actors", "directors" } :
              views.df_movies[k].title = t /\ ContainsCI(views.df_movies[k][f], resp.title)

\* The names of a column of the movie table that the normalized query
\* contains, read off the rows' fields.
NamesInQuery(df, field, query) ==
  { n \in Range(Names(df, field)) :
      Contains(normalize_string(query), normalize_string(n)) }

\* A title the exact pass or the fuzzy pass of the query can append.
ByExactOrFuzzy(query, t) ==
  \/ normalize_string(Lower(t)) = PhraseNormalized(query)
  \/ WRatio(PhraseNormalized(query), normalize_string(Lower(t))) >= TitleThreshold

\* C24: the substring fallback of a category (actors, directors, specific
\* movies) runs only when the entity pass left that category empty: a
\* category the entity pass filled holds what the entity pass found (titles
\* apart from those of the exact and fuzzy passes), and a category it left
\* empty holds only names the normalized query contains.
C24_FallbackOnlyWhenEntityPassEmpty ==
  (resp.op = "parse" /\ resp.status = "ok") =>
    /\ \A f \in { "actors", "directors" } :
         IF resp.entity[f] # {}
         THEN resp.parsed[f] = resp.entity[f]
         ELSE \A n \in NamesInQuery(movies, f, resp.query) :
                \E m \in resp.parsed[f] : normalize_string(m) = normalize_string(n)
    /\ IF resp.entity.specific_movies # {}
       THEN \A t \in resp.parsed.specific_movies \ resp.entity.specific_movies :
              ByExactOrFuzzy(resp.query, t)
       ELSE \A k \in DOMAIN movies :
              Contains(normalize_string(resp.query), NormalizedTitle(movies)[k]) =>
                \E t \in resp.parsed.specific_movies :
                  normalize_string(Lower(t)) = NormalizedTitle(movies)[k]

\* The entity pass found an actor, and the query contains the name of another
\* actor of the table, which the parse leaves out.
C24_Witness ==
  /\ resp.op = "parse" /\ resp.status = "ok"
  /\ resp.entity.actors # {}
  /\ \E n \in NamesInQuery(movies, "actors", resp.query) : n \notin resp.parsed.actors

\* The titles the passes before the fuzzy pass leave in specific_movies: those
\* of the entity pass or, when it found none, of the substring fallback, and
\* those of the exact match of the whole query.
BeforeFuzzy(query, df, entity) ==
  entity.specific_movies
    \cup (IF entity.specific_movies # {} THEN {}
          ELSE { FirstTitleNormalized(df, n) :
                   n \in { x \in TitlesNormalized(df) :
                             Contains(normalize_string(query), x) } })
    \cup { df[k].title :
             k \in { r \in DOMAIN df : NormalizedTitle(df)[r] = PhraseNormalized(query) } }

AddedByFuzzy == resp.parsed.specific_movies \ BeforeFuzzy(resp.query, movies, resp.entity)

ExactMatchFound ==
  \E k \in DOMAIN movies : NormalizedTitle(movies)[k] = PhraseNormalized(resp.query)

TitleScore(query, t) == WRatio(PhraseNormalized(query), normalize_string(Lower(t)))

\* C25: the fuzzy title pass adds at most one title per query, only the
\* best-scoring candidate and only when its score is at least 90, and it adds
\* nothing when an exact title match for the whole query was already found.
C25_FuzzyAddsOnlyBestAndNotAfterExact ==
  (resp.op = "parse" /\ resp.status = "ok") =>
    /\ Cardinality(AddedByFuzzy) <= 1
    /\ \A t \in AddedByFuzzy :
         /\ TitleScore(resp.query, t) >= TitleThreshold
         /\ \A k \in DOMAIN movies :
              TitleScore(resp.query, movies[k].title) <= TitleScore(resp.query, t)
    /\ ExactMatchFound => AddedByFuzzy = {}

\* C26: when several stored names or titles normalize to the same string,
\* the parsed query keeps only one of them: no output list (specific_movies,
\* actors, directors) holds two entries with the same normalized form.
C26_OneEntryPerNormalizedForm ==
  (resp.op = "parse" /\ resp.status = "ok") =>
    \A f \in { "specific_movies", "actors", "directors" } :
      \A a, b \in resp.parsed[f] :
        normalize_string(a) = normalize_string(b) => a = b

\* The names the rows of the table hold in a column.
KnownName(df, field, n) ==
  /\ n \in { N_AlRoe, N_BoLee, N_CyOrr }
  /\ \E k \in DOMAIN df : Contains(df[k][field], n)

Reported(list, n) == \E m \in list : normalize_string(m) = normalize_string(n)

LetterRuns(query) ==
  { SubSeq(query, p[1], p[2]) :
      p \in { q \in (DOMAIN query) \X (DOMAIN query) :
                /\ q[1] <= q[2]
                /\ \A k \in q[1]..q[2] : IsLetter(query[k])
                /\ q[1] = 1 \/ ~IsLetter(query[q[1] - 1])
                /\ q[2] = Len(query) \/ ~IsLetter(query[q[2] + 1]) } }

\* The genre g is what the word w contributes: its lemma when that is in the
\* vocabulary, else its GENRE_VARIATIONS entry, else the best fuzzy match when
\* that scores at least 80.
Contributes(w, g) ==
  LET lemma == IF Len(w) > MinTokenLen /\ Lower(w)[Len(w)] = "s"
               THEN SubSeq(Lower(w), 1, Len(w) - 1) ELSE Lower(w)
      inList == \E k \in DOMAIN GENRES_LIST : GENRES_LIST[k] = lemma
      isVariation == \E v \in GENRE_VARIATIONS : v[1] = Lower(w)
  IN IF inList THEN g = lemma
     ELSE IF isVariation THEN <<Lower(w), g>> \in GENRE_VARIATIONS
     ELSE /\ WRatio(Lower(w), g) >= GenreThreshold
          /\ \A k \in DOMAIN GENRES_LIST :
               WRatio(Lower(w), GENRES_LIST[k]) <= WRatio(Lower(w), g)

\* C28: every genre reported is a member of GENRES_LIST, contributed by a
\* token of three characters or more that is no punctuation: by its lemma
\* when that is in the vocabulary, else by its GENRE_VARIATIONS entry (whose
\* targets are all in the vocabulary), else by its best fuzzy match when that
\* scores at least 80.
C28_GenresFromVocabulary ==
  /\ \A v \in GENRE_VARIATIONS : v[2] \in Range(GENRES_LIST)
  /\ (resp.op = "parse" /\ resp.status = "ok") =>
       \A g \in resp.parsed.genres :
         /\ g \in Range(GENRES_LIST)
         /\ \E w \in LetterRuns(resp.query) :
              Len(w) >= MinTokenLen /\ Contributes(w, g)

\* A query that reports one genre by the lemma of a plural and another by a
\* GENRE_VARIATIONS entry.
C28_Witness ==
  /\ resp.op = "parse" /\ resp.status = "ok"
  /\ \E g \in resp.parsed.genres : \E w \in resp.tagged :
       Lower(w) # g /\ g = SubSeq(Lower(w), 1, Len(w) - 1)
  /\ \E g \in resp.parsed.genres : \E w \in resp.tagged :
       <<Lower(w), g>> \in GENRE_VARIATIONS

\* The titles of a stored recommended_movies text: its pieces between the
\* separators ", ".
RECURSIVE SplitTitles(_, _, _)
SplitTitles(text, cur, acc) ==
  IF text = <<>> THEN Append(acc, cur)
  ELSE IF Len(text) >= 2 /\ SubSeq(text, 1, 2) = <<",", " ">>
  THEN SplitTitles(SubSeq(text, 3, Len(text)), <<>>, Append(acc, cur))
  ELSE SplitTitles(Tail(text), Append(cur, Head(text)), acc)

\* C30: RecommendMoviesView.post writes exactly one MovieQuery record for a
\* request answered 200, holding the query text and the comma-joined titles
\* the response returns, and writes no record for a request answered 400 or
\* 404.
C30_OneAuditRecordPerAnswer ==
  [][ (resp.op = "none" /\ resp'.op = "post") =>
        /\ resp'.status = "200" =>
             /\ audit' = audit + 1
             /\ Len(resp'.created) = 1
             /\ resp'.created[1].query = resp'.query
             /\ SplitTitles(resp'.created[1].recommended_movies, <<>>, <<>>) = resp'.result
        /\ resp'.status \in { "400", "404" } =>
             /\ audit' = audit
             /\ resp'.created = <<>> ]_vars

\* A request answered 200 with two titles, and its record written.
C30_Witness ==
  /\ resp.op = "post" /\ resp.status = "200"
  /\ Len(resp.result) >= 2
  /\ Len(resp.created) = 1
  /\ audit = 1

C21_OnlyOwnProfileUnlessAdmin ==
  [][ (resp.op = "none" /\ resp'.op = "update_profile") =>
        LET user == resp'.args
            id == resp'.pk
        IN /\ (is_non_admin_user(user) /\ users' # users) => id = user
           /\ (is_customer_user(user) /\ id # user /\ users[id].profile) =>
                (resp'.status = "403" /\ users' = users)
           /\ (is_admin_user(user) /\ users[id].profile) =>
                (resp'.status = "200" /\ users'[id].city = Testville) ]_vars

\* C29: after every MoviesListCreateView.create request and every run of
\* fetch_latest_movies at most 10 Movies rows are stored, and the rows
\* removed to restore the limit are those with the oldest release_date: no
\* row that is kept is older than a row that was removed.
C29_AtMostTenLatest ==
  [][ (resp.op = "none" /\ resp'.op \in { "create_movie", "fetch_latest_movies" }) =>
        /\ Len(latest') <= LatestLimit
        /\ \A r \in Range(latest) : \A k \in Range(latest') :
             (\A x \in Range(latest') : x.id # r.id) =>
               ~Older(k.release_date, r.release_date) ]_vars

====
